---- MODULE Spec2Model ----
(***************************************************************************)
(* Model of the circuit breaker of the Hydepark Lyve middleware            *)
(* (src/app/circuit_breaker.py), of the downstream client operations that  *)
(* ResidentService wraps in it (src/app/hikcentral_client.py), of the      *)
(* request signer of the two clients (src/app/hikcentral_client.py,        *)
(* src/services/hikcentral_client.py) and of ResidentService               *)
(* (src/app/resident_service.py).                                          *)
(*                                                                         *)
(* Every redis await of the breaker is one step of the calling task, so    *)
(* concurrent calls interleave exactly where the coroutines can suspend.   *)
(***************************************************************************)
EXTENDS Integers, FiniteSets, Sequences, TLC

\* ------------------------------------------------------------------ bounds
FailureThreshold == 2      \* failure_threshold of the breaker (default 5)
RecoveryTimeout  == 2      \* recovery_timeout of the breaker, seconds (default 60)
MaxTime          == 3      \* the clock stops ticking here
MaxCount         == 4      \* INCR is not taken beyond this value

Callers == {"t1", "t2"}    \* concurrent request-handling tasks

\* the values a wrapped callable may return or raise
Results == {"r1"}
Errors  == {"e1"}

\* what the downstream system does with a request of the client
Downstream == {"ok", "business", "http", "network"}

\* the callables handed to CircuitBreaker.call: the three client methods
\* ResidentService passes, and "func" for any other callable
ClientOps == {"add_person", "delete_person", "generate_qr_code"}
Funcs     == ClientOps \cup {"func"}

NoTime == -1               \* last_failure_time key absent

VARIABLES
    redis_client,            \* "None" | "raw" (replies are bytes) | "decoded" (replies are str)
    state_key,               \* circuit_breaker:state, "nil" when absent
    failure_count_key,       \* circuit_breaker:failure_count, 0 when absent
    last_failure_time_key,   \* circuit_breaker:last_failure_time, NoTime when absent
    now,                     \* int(time.time())
    pc,                      \* where each task is inside CircuitBreaker.call
    func,                    \* the callable of the task's current call, "nil" between calls
    state,                   \* local `state` of record_success / record_failure
    count,                   \* local `count` of record_failure
    e,                       \* the exception caught at line 130
    op_outcome,              \* what the callable did (history)
    invoked,                 \* how often the callable was invoked in this call (history)
    admitted,                \* the state should_allow_request read for this call (history)
    recorded,                \* INCRs of the counter since its last DELETE (history)
    outcome,                 \* what CircuitBreaker.call did to its caller
    alone,                   \* no other task was inside call during this call (history)
    streak,                  \* consecutive failed calls since CLOSED/0, -1 untracked (history)
    ms,                      \* milliseconds of time.time() within the current second
    prev,                    \* an earlier header build of the signer (history)
    last,                    \* the latest header build of the signer (history)
    mapping,                 \* the ResidentMapping row of the resident: "none" | "active" | "inactive"
    qr_codes,                \* the QrCode rows of the resident
    request,                 \* the ResidentService method each task is running, "nil" if none
    response,                \* what that method returned
    sync_log                 \* the SyncLog rows that method wrote

sigVars == <<ms, prev, last>>

svcVars == <<mapping, qr_codes, request, response, sync_log>>

vars == <<redis_client, state_key, failure_count_key,
          last_failure_time_key, now, pc, func, state, count, e,
          op_outcome, invoked, admitted, recorded, outcome, alone, streak,
          sigVars, svcVars>>

storeVars == <<state_key, failure_count_key, last_failure_time_key>>

None == [kind |-> "none"]
Returned(v) == [kind |-> "returned", val |-> v]
Raised(x)   == [kind |-> "raised", val |-> x]

Active(c) == pc[c] \notin {"idle", "done"}

\* ------------------------------------------------------------ redis client
\* A reply of GET: nil, or the stored value as bytes (default client) or as
\* str (client created with decode_responses=True).
Reply(v, absent) ==
    IF v = absent THEN [type |-> "nil"]
    ELSE [type |-> IF redis_client = "decoded" THEN "str" ELSE "bytes", val |-> v]

\* reply.decode(): only bytes have it
Decode(reply) ==
    IF reply.type = "bytes" THEN Returned(reply.val) ELSE Raised("AttributeError")

\* ------------------------------------------------------- CircuitBreaker.get_state
\* get_state without the default for an absent key
get_state_no_default(ok) ==
    IF redis_client = "None" THEN Returned("CLOSED")
    ELSE IF ~ok THEN Raised("RedisError")
    ELSE LET r == Reply(state_key, "nil") IN
         IF r.type = "nil" THEN Returned("nil") ELSE Decode(r)

get_state(ok) ==
    IF redis_client = "None" THEN Returned("CLOSED")
    ELSE IF ~ok THEN Raised("RedisError")
    ELSE LET r == Reply(state_key, "nil") IN
         IF r.type = "nil" THEN Returned("CLOSED") ELSE Decode(r)

\* CircuitBreaker.get_failure_count
get_failure_count(ok) ==
    IF redis_client = "None" THEN Returned(0)
    ELSE IF ~ok THEN Raised("RedisError")
    ELSE LET r == Reply(failure_count_key, 0) IN
         IF r.type = "nil" THEN Returned(0) ELSE Decode(r)

\* ------------------------------------------------- HikCentralClient operations
\* add_person / delete_person / generate_qr_code: every downstream failure,
\* the network exception included, is turned into a returned dict.
ClientResponse(d) ==
    CASE d = "ok"       -> [success |-> TRUE,  code |-> "0"]
      [] d = "business" -> [success |-> FALSE, code |-> "business"]
      [] d = "http"     -> [success |-> FALSE, code |-> "http"]
      [] d = "network"  -> [success |-> FALSE, code |-> "NETWORK_ERROR"]

\* what awaiting the callable can produce
FuncOutcomes(f) ==
    IF f \in ClientOps
    THEN {Returned(ClientResponse(d)) : d \in Downstream}
    ELSE {Returned(v) : v \in Results} \cup {Raised(x) : x \in Errors}

\* ------------------------------------------------------------ history rules
\* streak counts the calls, made one after the other with a configured store,
\* whose callable failed and whose failure reached the caller, since the
\* stored state was CLOSED with counter 0.  FailureThreshold + 1 marks the
\* call right after the threshold was reached ending without an invocation.
StreakAfter(c, out, al, sk, inv, opo, st, cnt) ==
    IF redis_client = "None" \/ ~al THEN -1
    ELSE IF sk >= 0 /\ sk < FailureThreshold /\ opo.kind = "raised" /\ out = opo
         THEN sk + 1
    ELSE IF sk = FailureThreshold /\ out.kind = "raised" /\ inv = 0
         THEN FailureThreshold + 1
    ELSE IF st \in {"nil", "CLOSED"} /\ cnt = 0 THEN 0
    ELSE -1

\* the call of task c ends: it returns or raises `out` to its caller
Finish(c, out) ==
    /\ pc' = [pc EXCEPT ![c] = "done"]
    /\ outcome' = [outcome EXCEPT ![c] = out]
    /\ e' = [e EXCEPT ![c] = "nil"]
    /\ count' = [count EXCEPT ![c] = 0]
    /\ func' = [func EXCEPT ![c] = "nil"]
    /\ streak' = StreakAfter(c, out, alone'[c], streak, invoked'[c], op_outcome'[c],
                             state_key', failure_count_key')

\* the call of task c goes on at `label` with locals e = x and count = n
GotoWith(c, label, x, n) ==
    /\ pc' = [pc EXCEPT ![c] = label]
    /\ e' = [e EXCEPT ![c] = x]
    /\ count' = [count EXCEPT ![c] = n]
    /\ UNCHANGED <<func, outcome, streak>>

Goto(c, label) == GotoWith(c, label, e[c], count[c])

\* a redis command may raise (connection lost, timeout) whenever a client
\* is configured; `ok` says whether this command got its reply
CanFail(ok) == ok \/ redis_client # "None"

\* ----------------------------------------------------------------- Init
\* no header was built yet
NoBuild == [client |-> "none"]

\* the signer built nothing, no request of ResidentService is running
InitIdle ==
    /\ ms = 0
    /\ prev = NoBuild
    /\ last = NoBuild
    /\ qr_codes = {}
    /\ request = [c \in Callers |-> "nil"]
    /\ response = [c \in Callers |-> None]
    /\ sync_log = [c \in Callers |-> <<>>]

\* the breaker after initialize_circuit_breaker, the store empty
InitBreaker ==
    /\ redis_client \in {"None", "raw", "decoded"}
    /\ state_key = "nil"
    /\ failure_count_key = 0
    /\ last_failure_time_key = NoTime
    /\ now = 0
    /\ pc = [c \in Callers |-> "idle"]
    /\ func = [c \in Callers |-> "nil"]
    /\ state = [c \in Callers |-> "nil"]
    /\ count = [c \in Callers |-> 0]
    /\ e = [c \in Callers |-> "nil"]
    /\ op_outcome = [c \in Callers |-> None]
    /\ invoked = [c \in Callers |-> 0]
    /\ admitted = [c \in Callers |-> "nil"]
    /\ recorded = 0
    /\ outcome = [c \in Callers |-> None]
    /\ alone = [c \in Callers |-> TRUE]
    /\ streak = IF redis_client = "None" THEN -1 ELSE 0

Init ==
    /\ InitBreaker
    /\ InitIdle
    /\ mapping = "none"

\* ------------------------------------------------------ environment: clock
Tick ==
    /\ now < MaxTime
    /\ now' = now + 1
    /\ UNCHANGED <<redis_client, storeVars, pc, func, state, count, e,
                   op_outcome, invoked, admitted, recorded, outcome, alone, streak>>
    /\ UNCHANGED <<sigVars, svcVars>>

\* ------------------------------------------- CircuitBreaker.call, line 123
\* a breaker that lets calls through at once in state CLOSED only
ShouldAllowAtOnceClosedOnly(s) == s = "CLOSED"

\* should_allow_request, lines 72-74 and 87-88: CLOSED and HALF_OPEN allow
\* the request at once, OPEN goes on to the test of the elapsed time
ShouldAllowAtOnce(s) ==
    IF s = "CLOSED" THEN TRUE
    ELSE IF s = "OPEN" THEN FALSE
    ELSE TRUE

\* Task c calls call(f): should_allow_request reads the state (line 70).
\* CLOSED and HALF_OPEN admit the call and the callable is awaited (line 127);
\* OPEN goes on to read the last failure time; an exception of get_state
\* leaves call before the callable is invoked.
call(c, f, ok) ==
    /\ ~Active(c)
    /\ CanFail(ok)
    /\ LET others == \E d \in Callers \ {c} : Active(d)
           s == get_state(ok)
       IN /\ alone' = [d \in Callers |->
                          IF d = c THEN ~others
                          ELSE IF Active(d) THEN FALSE ELSE alone[d]]
          /\ state' = [state EXCEPT ![c] = "nil"]
          /\ op_outcome' = [op_outcome EXCEPT ![c] = None]
          /\ UNCHANGED <<redis_client, storeVars, now, e, count, recorded>>
          /\ admitted' = [admitted EXCEPT ![c] = IF s.kind = "raised" THEN "nil" ELSE s.val]
          /\ IF s.kind = "raised"
             THEN /\ invoked' = [invoked EXCEPT ![c] = 0]
                  /\ func' = [func EXCEPT ![c] = "nil"]
                  /\ pc' = [pc EXCEPT ![c] = "done"]
                  /\ outcome' = [outcome EXCEPT ![c] = s]
                  /\ streak' = StreakAfter(c, s, ~others, IF others THEN -1 ELSE streak,
                                           0, None, state_key, failure_count_key)
             ELSE /\ outcome' = [outcome EXCEPT ![c] = None]
                  /\ func' = [func EXCEPT ![c] = f]
                  /\ streak' = IF others THEN -1 ELSE streak
                  /\ IF ~ShouldAllowAtOnce(s.val)
                     THEN /\ invoked' = [invoked EXCEPT ![c] = 0]
                          /\ pc' = [pc EXCEPT ![c] = "should_allow_last"]
                     ELSE /\ invoked' = [invoked EXCEPT ![c] = 1]
                          /\ pc' = [pc EXCEPT ![c] = "func"]

\* a call made by any caller other than ResidentService
Call(c, f, ok) ==
    /\ call(c, f, ok)
    /\ UNCHANGED <<sigVars, svcVars>>

\* the decision in state OPEN without the test of the elapsed time
ShouldAllowOpenNoTimeout(reply, current_time) ==
    IF reply.type = "nil" THEN Returned(FALSE)
    ELSE LET d == Decode(reply) IN
         IF d.kind = "raised" THEN d ELSE Returned(TRUE)

\* the decision of should_allow_request in state OPEN, lines 76-85, from the
\* reply of GET last_failure_time and the clock
ShouldAllowOpen(reply, current_time) ==
    IF reply.type = "nil" THEN Returned(FALSE)
    ELSE LET d == Decode(reply) IN
         IF d.kind = "raised" THEN d
         ELSE Returned(current_time - d.val >= RecoveryTimeout)

\* should_allow_request, lines 76-85: state was OPEN
ShouldAllowLast(c, ok) ==
    /\ pc[c] = "should_allow_last"
    /\ UNCHANGED <<sigVars, svcVars, recorded>>
    /\ CanFail(ok)
    /\ UNCHANGED <<redis_client, storeVars, now, state, op_outcome, invoked, admitted, alone>>
    /\ IF ~ok THEN Finish(c, Raised("RedisError"))
       ELSE LET a == ShouldAllowOpen(Reply(last_failure_time_key, NoTime), now) IN
            IF a.kind = "raised" THEN Finish(c, a)
            ELSE IF a.val THEN Goto(c, "should_allow_set")
            ELSE Finish(c, Raised("CircuitOpen"))

\* should_allow_request, line 82: set_state("HALF_OPEN"), then the callable
\* is awaited (line 127)
ShouldAllowSet(c, ok) ==
    /\ pc[c] = "should_allow_set"
    /\ UNCHANGED <<sigVars, svcVars, recorded>>
    /\ CanFail(ok)
    /\ UNCHANGED <<redis_client, failure_count_key, last_failure_time_key,
                   now, state, op_outcome, admitted, alone>>
    /\ IF ~ok
       THEN /\ UNCHANGED <<state_key, invoked>>
            /\ Finish(c, Raised("RedisError"))
       ELSE /\ state_key' = "HALF_OPEN"
            /\ invoked' = [invoked EXCEPT ![c] = invoked[c] + 1]
            /\ Goto(c, "func")

\* -------------------------------------- CircuitBreaker.call, lines 127-132
\* record_success that does not close the circuit after a HALF_OPEN success
RecordSuccessBranchNoClose(s) ==
    IF s \in {"HALF_OPEN", "CLOSED"} THEN "reset" ELSE "return"

\* record_success that does not reset the counter in state CLOSED
RecordSuccessBranchNoReset(s) ==
    IF s = "HALF_OPEN" THEN "reset_and_close" ELSE "return"

\* record_success, lines 96-103: what is done in state s
RecordSuccessBranch(s) ==
    IF s = "HALF_OPEN" THEN "reset_and_close"
    ELSE IF s = "CLOSED" THEN "reset"
    ELSE "return"

\* record_failure that counts the failure in every state but HALF_OPEN
RecordFailureBranchCountsOpen(s) ==
    IF s = "HALF_OPEN" THEN "rf_set_half" ELSE "rf_incr"

\* record_failure, lines 109-115: what is done in state s
RecordFailureBranch(s) ==
    IF s = "HALF_OPEN" THEN "rf_set_half"
    ELSE IF s = "CLOSED" THEN "rf_incr"
    ELSE "return"

\* the threshold test with > in place of >=
ReachedThresholdStrict(n) == n > FailureThreshold

\* record_failure, line 116
ReachedThreshold(n) == n >= FailureThreshold

\* lines 130-131 and 105-113: x is bound to e and record_failure reads the
\* state.  HALF_OPEN goes on to set_state("OPEN"), CLOSED to
\* increment_failure_count; in any other state, and without a redis client
\* (increment_failure_count returns 0, set_state returns), call raises e.
RecordFailureEnter(c, x, ok) ==
    LET s == get_state(ok) IN
    IF s.kind = "raised"
    THEN /\ UNCHANGED state
         /\ Finish(c, s)
    ELSE /\ state' = [state EXCEPT ![c] = s.val]
         /\ IF redis_client = "None" THEN Finish(c, Raised(x))
            ELSE IF RecordFailureBranch(s.val) = "return" THEN Finish(c, Raised(x))
            ELSE GotoWith(c, RecordFailureBranch(s.val), x, 0)

\* The awaited callable returns (line 127); record_success reads the state
\* (line 94).  HALF_OPEN and CLOSED go on to reset_failure_count; in any other
\* state, and without a redis client, call returns the result (line 129).
\* An exception of get_state is raised inside the try block: line 130
\* catches it and record_failure runs, reading the state again.
FuncReturns(c, ok, ok2) ==
    /\ pc[c] = "func"
    /\ UNCHANGED <<sigVars, svcVars, recorded>>
    /\ CanFail(ok) /\ CanFail(ok2)
    /\ ok => ok2
    /\ UNCHANGED <<redis_client, storeVars, now, invoked, admitted, alone>>
    /\ \E r \in FuncOutcomes(func[c]) :
          /\ r.kind = "returned"
          /\ op_outcome' = [op_outcome EXCEPT ![c] = r]
          /\ LET s == get_state(ok) IN
             IF s.kind = "raised"
             THEN RecordFailureEnter(c, s.val, ok2)
             ELSE /\ state' = [state EXCEPT ![c] = s.val]
                  /\ IF redis_client = "None" THEN Finish(c, r)
                     ELSE IF RecordSuccessBranch(s.val) = "return" THEN Finish(c, r)
                     ELSE Goto(c, "rs_del_count")

\* a call that invokes the callable again when it raised
FuncRaisesRetry(c, ok) ==
    /\ pc[c] = "func"
    /\ CanFail(ok)
    /\ invoked' = [invoked EXCEPT ![c] = invoked[c] + 1]
    /\ UNCHANGED <<redis_client, storeVars, now, pc, func, state, count, e,
                   op_outcome, admitted, recorded, outcome, alone, streak,
                   sigVars, svcVars>>

\* The awaited callable raises (line 130): record_failure, lines 105-113
FuncRaises(c, ok) ==
    /\ pc[c] = "func"
    /\ UNCHANGED <<sigVars, svcVars, recorded>>
    /\ CanFail(ok)
    /\ UNCHANGED <<redis_client, storeVars, now, invoked, admitted, alone>>
    /\ \E r \in FuncOutcomes(func[c]) :
          /\ r.kind = "raised"
          /\ op_outcome' = [op_outcome EXCEPT ![c] = r]
          /\ RecordFailureEnter(c, r.val, ok)

\* a store command of record_success raises RedisError (lines 128, 130-131):
\* the store did not change, record_failure runs
RecordSuccessRaises(c) ==
    /\ redis_client # "None"
    /\ UNCHANGED <<redis_client, storeVars, now, op_outcome, invoked, admitted, alone>>
    /\ \E ok2 \in BOOLEAN : RecordFailureEnter(c, "RedisError", ok2)

\* reset_failure_count, line 64: DELETE failure_count
ResetDeleteCount(c, ok) ==
    /\ pc[c] = "rs_del_count"
    /\ UNCHANGED <<sigVars, svcVars>>
    /\ IF ~ok
       THEN /\ UNCHANGED recorded
            /\ RecordSuccessRaises(c)
       ELSE /\ failure_count_key' = 0
            /\ recorded' = 0
            /\ UNCHANGED <<redis_client, state_key, last_failure_time_key,
                           now, state, op_outcome, invoked, admitted, alone>>
            /\ Goto(c, "rs_del_last")

\* reset_failure_count, line 65: DELETE last_failure_time; in state CLOSED
\* record_success is over and call returns the result (line 129)
ResetDeleteLast(c, ok) ==
    /\ pc[c] = "rs_del_last"
    /\ UNCHANGED <<sigVars, svcVars, recorded>>
    /\ IF ~ok
       THEN RecordSuccessRaises(c)
       ELSE /\ last_failure_time_key' = NoTime
            /\ UNCHANGED <<redis_client, state_key, failure_count_key,
                           now, state, op_outcome, invoked, admitted, alone>>
            /\ IF RecordSuccessBranch(state[c]) = "reset_and_close" THEN Goto(c, "rs_set")
               ELSE Finish(c, op_outcome[c])

\* record_success, line 99: set_state("CLOSED"); call returns the result
RecordSuccessSet(c, ok) ==
    /\ pc[c] = "rs_set"
    /\ UNCHANGED <<sigVars, svcVars, recorded>>
    /\ IF ~ok
       THEN RecordSuccessRaises(c)
       ELSE /\ state_key' = "CLOSED"
            /\ UNCHANGED <<redis_client, failure_count_key,
                           last_failure_time_key, now, state,
                           op_outcome, invoked, admitted, alone>>
            /\ Finish(c, op_outcome[c])

\* a store command of record_failure raises RedisError: it leaves call in
\* place of e (line 131)
RecordFailureRaises(c) ==
    /\ redis_client # "None"
    /\ UNCHANGED <<redis_client, storeVars, now, state,
                   op_outcome, invoked, admitted, alone>>
    /\ Finish(c, Raised("RedisError"))

\* record_failure, line 111: set_state("OPEN") in state HALF_OPEN; call
\* raises e (line 132)
RecordFailureHalfOpen(c, ok) ==
    /\ pc[c] = "rf_set_half"
    /\ UNCHANGED <<sigVars, svcVars, recorded>>
    /\ IF ~ok
       THEN RecordFailureRaises(c)
       ELSE /\ state_key' = "OPEN"
            /\ UNCHANGED <<redis_client, failure_count_key,
                           last_failure_time_key, now, state,
                           op_outcome, invoked, admitted, alone>>
            /\ Finish(c, Raised(e[c]))

\* an increment that writes one more than the count the task holds
incr_from_local(stored, local) == local + 1

\* redis INCR (line 55): one command, the stored value plus one
incr(stored, local) == stored + 1

\* increment_failure_count, line 55: INCR failure_count
IncrementCount(c, ok) ==
    /\ pc[c] = "rf_incr"
    /\ UNCHANGED <<sigVars, svcVars>>
    /\ IF ~ok
       THEN /\ UNCHANGED recorded
            /\ RecordFailureRaises(c)
       ELSE /\ failure_count_key < MaxCount
            /\ failure_count_key' = incr(failure_count_key, count[c])
            /\ recorded' = recorded + 1
            /\ UNCHANGED <<redis_client, state_key, last_failure_time_key,
                           now, state, op_outcome, invoked, admitted, alone>>
            /\ GotoWith(c, "rf_set_last", e[c], incr(failure_count_key, count[c]))

\* increment_failure_count, line 56: SET last_failure_time; record_failure,
\* line 116: below the threshold call raises e (line 132)
IncrementSetLast(c, ok) ==
    /\ pc[c] = "rf_set_last"
    /\ UNCHANGED <<sigVars, svcVars, recorded>>
    /\ IF ~ok
       THEN RecordFailureRaises(c)
       ELSE /\ last_failure_time_key' = now
            /\ UNCHANGED <<redis_client, state_key, failure_count_key,
                           now, state, op_outcome, invoked, admitted, alone>>
            /\ IF ReachedThreshold(count[c]) THEN Goto(c, "rf_set_open")
               ELSE Finish(c, Raised(e[c]))

\* record_failure, line 118: set_state("OPEN"); call raises e (line 132)
RecordFailureOpen(c, ok) ==
    /\ pc[c] = "rf_set_open"
    /\ UNCHANGED <<sigVars, svcVars, recorded>>
    /\ IF ~ok
       THEN RecordFailureRaises(c)
       ELSE /\ state_key' = "OPEN"
            /\ UNCHANGED <<redis_client, failure_count_key,
                           last_failure_time_key, now, state,
                           op_outcome, invoked, admitted, alone>>
            /\ Finish(c, Raised(e[c]))

\* ----------------------------------------------------------- request signer
\* HikCentralClient of src/app/hikcentral_client.py ("app") and of
\* src/services/hikcentral_client.py ("services").  A string is a sequence
\* of tokens, NL being the newline character; concatenation is \o.
MsPerSecond == 1000        \* time.time() * 1000
MaxMs       == 1           \* the millisecond clock stops ticking here

NL == "\n"

Methods == {"GET", "POST", "PUT", "DELETE"}
Uris    == {<<"/artemis/api/resource/v1/person/single/add">>,
            <<"/artemis/api/visitor/access/qrCode/generate">>}
Bodies  == {<<>>, <<"{", "personCode", "}">>}
Uuids   == {"uuid-1", "uuid-2", "uuid-3"}

app_key    == <<"27108141">>
app_secret == <<"c3U7KikkPGo2Yka6GMZ5">>
user_id    == <<"admin">>

\* the characters of a string written out
RECURSIVE Concat(_)
Concat(str) == IF str = <<>> THEN "" ELSE Head(str) \o Concat(Tail(str))

\* sep.join(parts)
RECURSIVE Join(_, _)
Join(sep, parts) ==
    IF parts = <<>> THEN <<>>
    ELSE IF Len(parts) = 1 THEN parts[1]
    ELSE parts[1] \o <<sep>> \o Join(sep, Tail(parts))

\* hashlib.md5(..).digest(), hmac.new(..).digest() and base64.b64encode:
\* injective, the digest of a body is one token
md5(data) == "md5(" \o Concat(data) \o ")"
b64encode(digest) == "base64(" \o digest \o ")"
hmac_sha256(key, msg) == [key |-> key, msg |-> msg]

\* _get_content_md5
get_content_md5(body) == <<b64encode(md5(body))>>

\* headers.get(name, default)
HeaderGet(headers, name, default) ==
    IF name \in DOMAIN headers THEN headers[name] ELSE default

\* a string to sign with x-ca-timestamp before x-ca-nonce
string_to_sign_swapped(method, uri, headers) ==
    Join(NL, << <<method>>,
                HeaderGet(headers, "Accept", <<"*/*">>),
                HeaderGet(headers, "Content-MD5", <<>>),
                HeaderGet(headers, "Content-Type", <<>>),
                HeaderGet(headers, "Date", <<>>),
                <<"x-ca-key:">> \o HeaderGet(headers, "X-Ca-Key", <<"None">>),
                <<"x-ca-timestamp:">> \o HeaderGet(headers, "X-Ca-Timestamp", <<"None">>),
                <<"x-ca-nonce:">> \o HeaderGet(headers, "X-Ca-Nonce", <<"None">>),
                uri >>)

\* _generate_signature, lines 36-57: the string to sign
string_to_sign(method, uri, headers) ==
    Join(NL, << <<method>>,
                HeaderGet(headers, "Accept", <<"*/*">>),
                HeaderGet(headers, "Content-MD5", <<>>),
                HeaderGet(headers, "Content-Type", <<>>),
                HeaderGet(headers, "Date", <<>>),
                <<"x-ca-key:">> \o HeaderGet(headers, "X-Ca-Key", <<"None">>),
                <<"x-ca-nonce:">> \o HeaderGet(headers, "X-Ca-Nonce", <<"None">>),
                <<"x-ca-timestamp:">> \o HeaderGet(headers, "X-Ca-Timestamp", <<"None">>),
                uri >>)

\* a signer that keeps the signature of the build before
generate_signature_cached(method, uri, headers) ==
    IF last # NoBuild THEN last.headers["X-Ca-Signature"]
    ELSE [b64 |-> hmac_sha256(app_secret, string_to_sign(method, uri, headers))]

\* _generate_signature, lines 59-66 (the same in both clients)
generate_signature(method, uri, headers) ==
    [b64 |-> hmac_sha256(app_secret, string_to_sign(method, uri, headers))]

\* the headers both clients set before Content-MD5 and the signature
BaseHeaders(nonce, timestamp) ==
    [h \in {"Accept", "Content-Type", "X-Ca-Key", "X-Ca-Nonce", "X-Ca-Timestamp",
            "X-Ca-Signature-Headers", "userId"} |->
        CASE h = "Accept"                 -> <<"application/json">>
          [] h = "Content-Type"           -> <<"application/json;charset=UTF-8">>
          [] h = "X-Ca-Key"               -> app_key
          [] h = "X-Ca-Nonce"             -> nonce
          [] h = "X-Ca-Timestamp"         -> timestamp
          [] h = "X-Ca-Signature-Headers" -> <<"x-ca-key,x-ca-nonce,x-ca-timestamp">>
          [] h = "userId"                 -> user_id]

\* headers with `value` stored under `name`
HeaderSet(headers, name, value) == (name :> value) @@ headers

\* _build_headers that sets Content-MD5 whatever the body
build_headers_md5_always(method, uri, body_str, time_ms, time_s) ==
    LET headers == HeaderSet(BaseHeaders(<<ToString(time_s)>>, <<ToString(time_ms)>>),
                             "Content-MD5", get_content_md5(body_str))
    IN HeaderSet(headers, "X-Ca-Signature", generate_signature(method, uri, headers))

\* app client, _build_headers: timestamp = str(int(time.time() * 1000)),
\* nonce = str(int(time.time()))
build_headers(method, uri, body_str, time_ms, time_s) ==
    LET base == BaseHeaders(<<ToString(time_s)>>, <<ToString(time_ms)>>)
        headers == IF body_str # <<>>
                   THEN HeaderSet(base, "Content-MD5", get_content_md5(body_str))
                   ELSE base
    IN HeaderSet(headers, "X-Ca-Signature", generate_signature(method, uri, headers))

\* services client, _build_headers: nonce = str(uuid.uuid4())
build_headers_services(body_str, time_ms, uuid) ==
    LET base == BaseHeaders(<<uuid>>, <<ToString(time_ms)>>)
    IN IF body_str # <<>>
       THEN HeaderSet(base, "Content-MD5", get_content_md5(body_str))
       ELSE base

\* services client, make_request, lines 91-98: the headers of the request
make_request(endpoint, body_str, method, time_ms, uuid) ==
    LET headers == build_headers_services(body_str, time_ms, uuid)
    IN HeaderSet(headers, "X-Ca-Signature", generate_signature(method, endpoint, headers))

\* a header build, as the history keeps it
Build(client, method, uri, body_str, headers) ==
    [client |-> client, method |-> method, uri |-> uri, body |-> body_str,
     headers |-> headers]

\* a build becomes the latest; the history keeps one earlier build
Remember(b) ==
    /\ last' = b
    /\ prev' \in (IF last = NoBuild THEN {prev} ELSE {prev, last} \ {NoBuild})

\* uuid.uuid4(): a value no build of the history carries
uuid4 ==
    CHOOSE u \in Uuids :
        \A b \in {prev, last} \ {NoBuild} : b.headers["X-Ca-Nonce"] # <<u>>

\* the millisecond clock
TickMs ==
    /\ ms < MaxMs
    /\ ms' = ms + 1
    /\ UNCHANGED <<redis_client, storeVars, now, pc, func, state, count, e,
                   op_outcome, invoked, admitted, recorded, outcome, alone, streak, prev, last, svcVars>>

\* a method of the app client builds the headers of its request
BuildHeaders(method, uri, body_str) ==
    /\ Remember(Build("app", method, uri, body_str,
                      build_headers(method, uri, body_str, now * MsPerSecond + ms, now)))
    /\ UNCHANGED <<redis_client, storeVars, now, pc, func, state, count, e,
                   op_outcome, invoked, admitted, recorded, outcome, alone, streak, ms, svcVars>>

\* the services client builds and signs the headers of a request
MakeRequest(endpoint, body_str, method) ==
    /\ Remember(Build("services", method, endpoint, body_str,
                      make_request(endpoint, body_str, method, now * MsPerSecond + ms, uuid4)))
    /\ UNCHANGED <<redis_client, storeVars, now, pc, func, state, count, e,
                   op_outcome, invoked, admitted, recorded, outcome, alone, streak, ms, svcVars>>

\* ---------------------------------------------------------- ResidentService
\* src/app/resident_service.py, one resident: the row of resident_mappings
\* for its (email, community), which is also the row of its (owner_id,
\* unit_id).  The database answers every statement; the requests are taken
\* one at a time.
ServiceOps == {"create_resident", "delete_resident", "generate_qr_code"}

\* the task that handles the requests
Handlers == {"t1"}

brkVars == <<redis_client, storeVars, now, pc, func, state, count, e,
             op_outcome, invoked, admitted, recorded, outcome, alone, streak>>

\* the dict a method of ResidentService returns
Result(success, status_code, error, ownerId) ==
    [success |-> success, status_code |-> status_code, error |-> error,
     ownerId |-> ownerId]

\* the SyncLog row _log_sync writes
LogRow(operation, status_code, error_message) ==
    [operation |-> operation, status_code |-> status_code,
     error_message |-> error_message]

\* the `operation` of the SyncLog rows of a method
Operation(op) ==
    CASE op = "create_resident"  -> "CREATE"
      [] op = "delete_resident"  -> "DELETE"
      [] op = "generate_qr_code" -> "QR_CODE"

\* the client method a method of ResidentService hands to the breaker
ClientOp(op) ==
    CASE op = "create_resident"  -> "add_person"
      [] op = "delete_resident"  -> "delete_person"
      [] op = "generate_qr_code" -> "generate_qr_code"

\* the request of task c is being handled
Busy(c) == request[c] # "nil" /\ response[c] = None

\* a lookup that never finds the resident
check_resident_never(db_ok) == "None"

\* a lookup that ignores is_active
check_resident_any_row(db_ok) ==
    IF db_ok /\ mapping # "none" THEN "existing_resident" ELSE "None"

\* check_resident, and the lookups of lines 205-213 and 307-315: the active
\* row of the resident; check_resident returns None when the query raises
check_resident(db_ok) ==
    IF db_ok /\ mapping = "active" THEN "existing_resident" ELSE "None"

\* json.dumps(v) at lines 130, 260 and 366: the module never imports json
json_dumps(v) == Raised("NameError")

\* the method of task c returns `result`, having written `rows` to SyncLog
Return(c, result, rows) ==
    /\ response' = [response EXCEPT ![c] = result]
    /\ sync_log' = [sync_log EXCEPT ![c] = sync_log[c] \o rows]
    /\ UNCHANGED request

\* the handler of the breaker's exception as the outer handler would do it
BreakerRaisedInternal(c, x) ==
    /\ Return(c, Result(FALSE, 500, "Internal server error", "nil"),
              <<LogRow(Operation(request[c]), 500, <<x>>)>>)
    /\ UNCHANGED <<mapping, qr_codes>>

\* lines 107-120, 236-250, 340-356: circuit_breaker.call raised x
BreakerRaised(c, x) ==
    /\ Return(c, Result(FALSE, 503, "Service temporarily unavailable", "nil"),
              <<LogRow(Operation(request[c]), 503, <<"Circuit breaker open: ", x>>)>>)
    /\ UNCHANGED <<mapping, qr_codes>>

\* the outer handlers, lines 181-196, 283-298, 418-433: rollback, log, 500
InternalError(c, x, rows) ==
    /\ Return(c, Result(FALSE, 500, "Internal server error", "nil"),
              rows \o <<LogRow(Operation(request[c]), 500, <<x>>)>>)
    /\ UNCHANGED <<mapping, qr_codes>>

\* lines 144-179: the mapping is added and committed; the unique index on
\* (email, community) refuses a second row for the resident
StoreMapping(c, rows) ==
    IF mapping = "none"
    THEN /\ mapping' = "active"
         /\ UNCHANGED qr_codes
         /\ Return(c, Result(TRUE, 201, "nil", "new_owner_id"), rows)
    ELSE InternalError(c, "IntegrityError", rows)

\* lines 274-281: the mapping is marked inactive
DeactivateMapping(c, rows) ==
    /\ mapping' = "inactive"
    /\ UNCHANGED qr_codes
    /\ Return(c, Result(TRUE, 200, "nil", "nil"), rows)

\* lines 380-416: the QR code of the response is stored
StoreQrCode(c, rows) ==
    /\ qr_codes' = qr_codes \cup {"qr_code_data"}
    /\ UNCHANGED mapping
    /\ Return(c, Result(TRUE, 200, "nil", "nil"), rows)

\* main.py, lines 197-221, 255-279, 313-338: a request arrives at task c
Receive(c, op) ==
    /\ \A d \in Callers : ~Busy(d) /\ ~Active(d)
    /\ request' = [request EXCEPT ![c] = op]
    /\ response' = [response EXCEPT ![c] = None]
    /\ sync_log' = [sync_log EXCEPT ![c] = <<>>]
    /\ pc' = [pc EXCEPT ![c] = "idle"]
    /\ invoked' = [invoked EXCEPT ![c] = 0]
    /\ admitted' = [admitted EXCEPT ![c] = "nil"]
    /\ op_outcome' = [op_outcome EXCEPT ![c] = None]
    /\ outcome' = [outcome EXCEPT ![c] = None]
    /\ UNCHANGED <<redis_client, storeVars, now, func, state, count, e, alone, streak, recorded,
                   mapping, qr_codes, sigVars>>

\* create_resident, lines 55-106: a resident found ends the method with 409;
\* otherwise add_person is handed to the breaker
CreateResident(c, ok) ==
    /\ request[c] = "create_resident" /\ response[c] = None /\ pc[c] = "idle"
    /\ UNCHANGED sigVars
    /\ IF check_resident(TRUE) # "None"
       THEN /\ ok
            /\ Return(c, Result(FALSE, 409, "Resident already exists", "owner_id"),
                      <<LogRow("CREATE", 409, <<"Resident already exists">>)>>)
            /\ UNCHANGED <<brkVars, mapping, qr_codes>>
       ELSE /\ call(c, "add_person", ok)
            /\ UNCHANGED svcVars

\* delete_resident, lines 203-235, and generate_qr_code, lines 305-339: no
\* resident found ends the method with 404; otherwise the client method is
\* handed to the breaker
FindResident(c, ok) ==
    /\ request[c] \in {"delete_resident", "generate_qr_code"}
    /\ response[c] = None /\ pc[c] = "idle"
    /\ UNCHANGED sigVars
    /\ IF check_resident(TRUE) = "None"
       THEN /\ ok
            /\ Return(c, Result(FALSE, 404, "Resident not found", "nil"),
                      <<LogRow(Operation(request[c]), 404, <<"Resident not found">>)>>)
            /\ UNCHANGED <<brkVars, mapping, qr_codes>>
       ELSE /\ call(c, ClientOp(request[c]), ok)
            /\ UNCHANGED svcVars

\* lines 107-179, 236-281, 340-416: circuit_breaker.call is over.  An
\* exception ends the method with 503.  A response is logged, which needs
\* json.dumps; a response without success ends the method with 500; a
\* successful one is followed by the change of the database.
AfterCall(c) ==
    /\ request[c] # "nil" /\ response[c] = None /\ pc[c] = "done"
    /\ UNCHANGED <<brkVars, sigVars>>
    /\ IF outcome[c].kind = "raised" THEN BreakerRaised(c, outcome[c].val)
       ELSE LET hikcentral_response == outcome[c].val
                dumped == json_dumps(hikcentral_response)
                rows == <<LogRow(Operation(request[c]),
                                 IF ~hikcentral_response.success THEN 500
                                 ELSE IF request[c] = "create_resident" THEN 201 ELSE 200,
                                 <<"hikcentral_response">>)>>
            IN IF dumped.kind = "raised" THEN InternalError(c, dumped.val, <<>>)
               ELSE IF ~hikcentral_response.success
               THEN /\ Return(c, Result(FALSE, 500, "message", "nil"), rows)
                    /\ UNCHANGED <<mapping, qr_codes>>
               ELSE CASE request[c] = "create_resident"  -> StoreMapping(c, rows)
                      [] request[c] = "delete_resident"  -> DeactivateMapping(c, rows)
                      [] request[c] = "generate_qr_code" -> StoreQrCode(c, rows)

\* ------------------------------------------------------------- specification
\* the breaker wrapping an arbitrary callable
Next ==
    \/ Tick
    \/ \E c \in Callers, ok \in BOOLEAN : Call(c, "func", ok)
    \/ \E c \in Callers, ok \in BOOLEAN : ShouldAllowLast(c, ok)
    \/ \E c \in Callers, ok \in BOOLEAN : ShouldAllowSet(c, ok)
    \/ \E c \in Callers, ok \in BOOLEAN, ok2 \in BOOLEAN : FuncReturns(c, ok, ok2)
    \/ \E c \in Callers, ok \in BOOLEAN : FuncRaises(c, ok)
    \/ \E c \in Callers, ok \in BOOLEAN : ResetDeleteCount(c, ok)
    \/ \E c \in Callers, ok \in BOOLEAN : ResetDeleteLast(c, ok)
    \/ \E c \in Callers, ok \in BOOLEAN : RecordSuccessSet(c, ok)
    \/ \E c \in Callers, ok \in BOOLEAN : RecordFailureHalfOpen(c, ok)
    \/ \E c \in Callers, ok \in BOOLEAN : IncrementCount(c, ok)
    \/ \E c \in Callers, ok \in BOOLEAN : IncrementSetLast(c, ok)
    \/ \E c \in Callers, ok \in BOOLEAN : RecordFailureOpen(c, ok)

Spec == Init /\ [][Next]_vars


\* the breaker as ResidentService uses it (resident_service.py, lines 103,
\* 232, 334): the callables are the three client methods, which return a
\* dict whatever the downstream system does; requests are taken one at a time
CallService(c, f, ok) ==
    /\ \A d \in Callers : ~Active(d)
    /\ Call(c, f, ok)

NextService ==
    \/ Tick
    \/ \E c \in Callers, f \in ClientOps, ok \in BOOLEAN : CallService(c, f, ok)
    \/ \E c \in Callers, ok \in BOOLEAN : ShouldAllowLast(c, ok)
    \/ \E c \in Callers, ok \in BOOLEAN : ShouldAllowSet(c, ok)
    \/ \E c \in Callers, ok \in BOOLEAN, ok2 \in BOOLEAN : FuncReturns(c, ok, ok2)
    \/ \E c \in Callers, ok \in BOOLEAN : ResetDeleteCount(c, ok)
    \/ \E c \in Callers, ok \in BOOLEAN : ResetDeleteLast(c, ok)
    \/ \E c \in Callers, ok \in BOOLEAN : RecordSuccessSet(c, ok)
    \/ \E c \in Callers, ok \in BOOLEAN : RecordFailureHalfOpen(c, ok)
    \/ \E c \in Callers, ok \in BOOLEAN : IncrementCount(c, ok)
    \/ \E c \in Callers, ok \in BOOLEAN : IncrementSetLast(c, ok)
    \/ \E c \in Callers, ok \in BOOLEAN : RecordFailureOpen(c, ok)

SpecService == Init /\ [][NextService]_vars

\* ResidentService over the breaker and the client; the database holds the
\* rows it held when the process started
InitResident ==
    /\ InitBreaker
    /\ InitIdle
    /\ mapping \in {"none", "active", "inactive"}

NextResident ==
    \/ Tick
    \/ \E c \in Handlers, op \in ServiceOps : Receive(c, op)
    \/ \E c \in Handlers, ok \in BOOLEAN : CreateResident(c, ok)
    \/ \E c \in Handlers, ok \in BOOLEAN : FindResident(c, ok)
    \/ \E c \in Handlers : AfterCall(c)
    \/ \E c \in Handlers, ok \in BOOLEAN : ShouldAllowLast(c, ok)
    \/ \E c \in Handlers, ok \in BOOLEAN : ShouldAllowSet(c, ok)
    \/ \E c \in Handlers, ok \in BOOLEAN, ok2 \in BOOLEAN : FuncReturns(c, ok, ok2)
    \/ \E c \in Handlers, ok \in BOOLEAN : ResetDeleteCount(c, ok)
    \/ \E c \in Handlers, ok \in BOOLEAN : ResetDeleteLast(c, ok)
    \/ \E c \in Handlers, ok \in BOOLEAN : RecordSuccessSet(c, ok)
    \/ \E c \in Handlers, ok \in BOOLEAN : RecordFailureHalfOpen(c, ok)
    \/ \E c \in Handlers, ok \in BOOLEAN : IncrementCount(c, ok)
    \/ \E c \in Handlers, ok \in BOOLEAN : IncrementSetLast(c, ok)
    \/ \E c \in Handlers, ok \in BOOLEAN : RecordFailureOpen(c, ok)

SpecResident == InitResident /\ [][NextResident]_vars

\* the request signer of the two clients, within one second of the clock
NextSigner ==
    \/ TickMs
    \/ \E method \in Methods, uri \in Uris, body_str \in Bodies :
          BuildHeaders(method, uri, body_str)
    \/ \E method \in Methods, endpoint \in Uris, body_str \in Bodies :
          MakeRequest(endpoint, body_str, method)

\* the signer uses neither the breaker nor the database
InitSigner ==
    /\ Init
    /\ redis_client = "None"

SpecSigner == InitSigner /\ [][NextSigner]_vars

TypeOK ==
    /\ redis_client \in {"None", "raw", "decoded"}
    /\ state_key \in {"nil", "CLOSED", "OPEN", "HALF_OPEN"}
    /\ failure_count_key \in 0..MaxCount
    /\ last_failure_time_key \in {NoTime} \cup 0..MaxTime
    /\ now \in 0..MaxTime
    /\ \A c \in Callers : invoked[c] \in 0..1
    /\ \A c \in Callers : admitted[c] \in {"nil", "CLOSED", "OPEN", "HALF_OPEN"}
    /\ recorded \in 0..MaxCount
    /\ streak \in -1..(FailureThreshold + 1)
    /\ ms \in 0..MaxMs
    /\ mapping \in {"none", "active", "inactive"}
    /\ qr_codes \subseteq {"qr_code_data"}
    /\ \A c \in Callers : request[c] \in ServiceOps \cup {"nil"}

\* ------------------------------------------------------------- properties
\* the step in which the call of task c ends
Completes(c) == Active(c) /\ pc'[c] = "done"

\* the call of c ended with the callable's own outcome: admitted, and no
\* store command of the call raised
OwnOutcome(c) == op_outcome[c].kind # "none" /\ outcome[c] = op_outcome[c]

\* the stored state is OPEN and less than recovery_timeout has elapsed since
\* the stored last failure time
OpenAndFresh ==
    /\ state_key = "OPEN"
    /\ last_failure_time_key # NoTime
    /\ now - last_failure_time_key < RecoveryTimeout

NoneActive == \A c \in Callers : ~Active(c)

\* C1: from CLOSED with counter 0, calls made one after the other whose
\* callable fails leave the state CLOSED with the counter at their number
\* while they are fewer than failure_threshold, and OPEN once they are
\* failure_threshold; the call following the failure_threshold-th failure,
\* ending before recovery_timeout has elapsed, raises without having
\* invoked the callable.
C1_BetweenCalls ==
    (NoneActive /\ streak \in 0..FailureThreshold) =>
        IF streak = FailureThreshold
        THEN state_key = "OPEN"
        ELSE state_key \in {"nil", "CLOSED"} /\ failure_count_key = streak

C1_NextCall ==
    \A c \in Callers :
        (streak = FailureThreshold /\ Completes(c) /\ OpenAndFresh) =>
            (outcome'[c].kind = "raised" /\ invoked'[c] = 0)

C1_OpensAtThreshold == [](C1_BetweenCalls) /\ [][C1_NextCall]_vars

C1_Witness ==
    /\ streak = FailureThreshold + 1
    /\ OpenAndFresh
    /\ \E c \in Callers :
          /\ pc[c] = "done"
          /\ outcome[c] = Raised("CircuitOpen")
          /\ invoked[c] = 0

\* C2: a step of call's admission check (the read of the state, the read of
\* the last failure time) taken while the stored state is OPEN and less than
\* recovery_timeout has elapsed never admits the call: the callable is not
\* invoked, and the read of the last failure time ends the call by raising.
C2_Step ==
    \A c \in Callers :
        OpenAndFresh =>
            /\ (~Active(c) => pc'[c] \in {"idle", "done", "should_allow_last"})
            /\ (pc[c] = "should_allow_last" /\ pc'[c] # pc[c] =>
                    /\ pc'[c] = "done"
                    /\ outcome'[c].kind = "raised"
                    /\ invoked'[c] = 0)

C2_OpenRejects == [][C2_Step]_vars

C2_Witness ==
    /\ OpenAndFresh
    /\ \E c \in Callers :
          /\ pc[c] = "done"
          /\ outcome[c] = Raised("CircuitOpen")
          /\ invoked[c] = 0
          /\ op_outcome[c] = None

\* C3: in every reachable state whose stored state is OPEN, a call made
\* once recovery_timeout has elapsed reads OPEN, finds the timeout elapsed
\* and is let through (to set HALF_OPEN and invoke the callable).
AdmittedAt(t) ==
    /\ get_state(TRUE) = Returned("OPEN")
    /\ ShouldAllowOpen(Reply(last_failure_time_key, NoTime), t) = Returned(TRUE)

C3_OpenRecovers ==
    state_key = "OPEN" =>
        \E t \in now..(MaxTime + RecoveryTimeout) : AdmittedAt(t)

\* C4: a call that recorded its outcome in state HALF_OPEN ends, when its
\* callable returned, with the stored state CLOSED (and, no other call
\* having run meanwhile, the counter 0), and when its callable raised, with
\* the stored state OPEN, whatever the counter.
C4_Step ==
    \A c \in Callers :
        (Completes(c) /\ state'[c] = "HALF_OPEN" /\ outcome'[c] = op_outcome'[c]) =>
            /\ (op_outcome'[c].kind = "returned" =>
                    /\ state_key' = "CLOSED"
                    /\ (alone[c] => failure_count_key' = 0))
            /\ (op_outcome'[c].kind = "raised" => state_key' = "OPEN")

C4_HalfOpenOutcome == [][C4_Step]_vars

C4_Witness ==
    \E c \in Callers, d \in Callers :
        /\ c # d
        /\ pc[c] = "done" /\ state[c] = "HALF_OPEN" /\ alone[c]
        /\ outcome[c].kind = "returned" /\ OwnOutcome(c)
        /\ state_key = "CLOSED" /\ failure_count_key = 0
        /\ pc[d] = "done" /\ state[d] = "HALF_OPEN"
        /\ outcome[d].kind = "raised" /\ OwnOutcome(d)

\* C5: a call, no other call running meanwhile, whose callable raised and
\* that recorded the failure in state HALF_OPEN ends with the stored last
\* failure time equal to the time of that failure.
C5_Step ==
    \A c \in Callers :
        (Completes(c) /\ alone[c] /\ state'[c] = "HALF_OPEN"
           /\ op_outcome'[c].kind = "raised" /\ outcome'[c] = op_outcome'[c]) =>
            last_failure_time_key' = now

C5_HalfOpenFailureStamped == [][C5_Step]_vars

\* C6: a call, no other call running meanwhile, whose callable returned and
\* that recorded the success in state CLOSED ends with the counter 0 and the
\* stored state still CLOSED, whatever the counter was before and however
\* many successes preceded it.
C6_Step ==
    \A c \in Callers :
        (Completes(c) /\ alone[c] /\ state'[c] = "CLOSED"
           /\ op_outcome'[c].kind = "returned" /\ outcome'[c] = op_outcome'[c]) =>
            /\ failure_count_key' = 0
            /\ state_key' \in {"nil", "CLOSED"}
            /\ state_key' = state_key

C6_ClosedSuccessResets == [][C6_Step]_vars

C6_Witness ==
    \E c \in Callers, d \in Callers :
        /\ c # d
        /\ redis_client = "raw"
        /\ pc[d] = "done" /\ state[d] = "CLOSED"
        /\ outcome[d].kind = "raised" /\ OwnOutcome(d)
        /\ pc[c] = "done" /\ state[c] = "CLOSED" /\ alone[c]
        /\ outcome[c].kind = "returned" /\ OwnOutcome(c)
        /\ failure_count_key = 0 /\ state_key = "nil"
        /\ streak = 0

\* C7: a call made by ResidentService whose downstream request failed
\* (business error code, HTTP status other than 200, network error or
\* timeout) and whose store commands all got their reply has recorded a
\* failure: the failure counter is above 0 or the circuit is open.
C7_DownstreamFailureRecorded ==
    \A c \in Callers :
        (/\ redis_client = "raw"
         /\ pc[c] = "done"
         /\ op_outcome[c].kind = "returned"
         /\ op_outcome[c].val.success = FALSE
         /\ outcome[c] = op_outcome[c]) =>
            (failure_count_key > 0 \/ state_key = "OPEN")

\* C8: a call whose callable raised has raised that same error.
C8_RaisesSameError ==
    \A c \in Callers :
        (pc[c] = "done" /\ op_outcome[c].kind = "raised") =>
            outcome[c] = op_outcome[c]

\* C9: a call whose callable returned has returned the callable's value.
C9_ReturnsResult ==
    \A c \in Callers :
        (pc[c] = "done" /\ op_outcome[c].kind = "returned") =>
            outcome[c] = op_outcome[c]

\* C10: without a redis client every call invokes the callable and ends with
\* the callable's own outcome, and no call ends with the exception of a
\* store command.
C10_StoreUnavailableAllows ==
    \A c \in Callers :
        pc[c] = "done" =>
            /\ (redis_client = "None" => invoked[c] = 1 /\ OwnOutcome(c))
            /\ outcome[c] # Raised("RedisError")

\* C13: a call invokes the callable at most once: once when it was admitted,
\* never when it was not; a callable that failed is not invoked again.
C13_InvokedOnce ==
    \A c \in Callers :
        /\ invoked[c] \in {0, 1}
        /\ pc[c] \in {"should_allow_last", "should_allow_set"} => invoked[c] = 0
        /\ pc[c] \notin {"idle", "done", "should_allow_last", "should_allow_set"} =>
              invoked[c] = 1
        /\ pc[c] = "done" => (invoked[c] = 1 <=> op_outcome[c] # None)
        /\ (pc[c] = "done" /\ outcome[c] = Raised("CircuitOpen")) => invoked[c] = 0

C13_Witness ==
    \E c \in Callers, d \in Callers :
        /\ pc[c] = "done" /\ invoked[c] = 1
        /\ op_outcome[c].kind = "raised" /\ OwnOutcome(c)
        /\ pc[d] = "done" /\ invoked[d] = 0
        /\ outcome[d] = Raised("CircuitOpen")

\* C18: the stored state is absent or one of CLOSED, OPEN, HALF_OPEN and the
\* stored counter is a natural number; a state read is one of the three and
\* a counter read is a natural number; with nothing stored the state reads
\* as CLOSED, the counter as 0, and there is no last failure time.
C18_StateWellFormed ==
    /\ state_key \in {"nil", "CLOSED", "OPEN", "HALF_OPEN"}
    /\ failure_count_key \in Nat
    /\ get_state(TRUE).kind = "returned" =>
          get_state(TRUE).val \in {"CLOSED", "OPEN", "HALF_OPEN"}
    /\ get_failure_count(TRUE).kind = "returned" => get_failure_count(TRUE).val \in Nat
    /\ (state_key = "nil" /\ failure_count_key = 0 /\ last_failure_time_key = NoTime) =>
          /\ get_state(TRUE) = Returned("CLOSED")
          /\ get_failure_count(TRUE) = Returned(0)
          /\ Reply(last_failure_time_key, NoTime).type = "nil"

C18_Witness ==
    /\ redis_client = "raw"
    /\ state_key = "HALF_OPEN"
    /\ failure_count_key >= FailureThreshold
    /\ last_failure_time_key # NoTime
    /\ get_state(TRUE) = Returned("HALF_OPEN")

\* ------------------------------------------- properties of ResidentService
\* the call of the breaker made for the request of task c ended by raising
\* with the client method never invoked
Rejected(c) == pc[c] = "done" /\ outcome[c].kind = "raised" /\ invoked[c] = 0

\* the client method of the request of task c was invoked and the downstream
\* request failed
DownstreamFailed(c) ==
    /\ invoked[c] = 1
    /\ op_outcome[c].kind = "returned"
    /\ ~op_outcome[c].val.success

\* a SyncLog row that says the breaker was open
SaysBreakerOpen(row) ==
    row.status_code = 503 /\ Head(row.error_message) = "Circuit breaker open: "

\* C11: no SyncLog row written for a request whose client method was invoked
\* and failed downstream says that the breaker rejected the call.
C11_FailureNotLoggedAsRejection ==
    \A c \in Callers :
        (response[c] # None /\ DownstreamFailed(c)) =>
            \A i \in 1..Len(sync_log[c]) : ~SaysBreakerOpen(sync_log[c][i])

\* C12: while the client method of a request has not been invoked, no step
\* changes the resident mapping or the QR codes; a request whose call the
\* breaker rejected returns 503 'Service temporarily unavailable' with the
\* client method still not invoked and the mapping and QR codes as they were.
C12_Step ==
    \A c \in Callers :
        /\ ((Busy(c) \/ Busy(c)') /\ invoked'[c] = 0) => UNCHANGED <<mapping, qr_codes>>
        /\ (Busy(c) /\ Rejected(c) /\ response'[c] # None) =>
              /\ response'[c] = Result(FALSE, 503, "Service temporarily unavailable", "nil")
              /\ invoked'[c] = 0 /\ op_outcome'[c] = None
              /\ UNCHANGED <<mapping, qr_codes>>

C12_RejectedGives503 == [][C12_Step]_vars

C12_Witness ==
    \E c \in Callers :
        /\ request[c] = "delete_resident"
        /\ outcome[c] = Raised("CircuitOpen") /\ invoked[c] = 0
        /\ response[c] = Result(FALSE, 503, "Service temporarily unavailable", "nil")
        /\ mapping = "active" /\ qr_codes = {}

\* C19: create_resident for a resident with an active mapping returns 409
\* with the ownerId of that mapping, and its step leaves the store of the
\* breaker, every task's position in call, the invocations of the client
\* method, the mapping and the QR codes unchanged.
C19_Step ==
    \A c \in Callers :
        (/\ request[c] = "create_resident" /\ response[c] = None /\ pc[c] = "idle"
         /\ mapping = "active"
         /\ <<pc[c], response[c]>>' # <<pc[c], response[c]>>) =>
            /\ response'[c] = Result(FALSE, 409, "Resident already exists", "owner_id")
            /\ UNCHANGED <<storeVars, pc, invoked, op_outcome, mapping, qr_codes>>

C20_CreateStoresMapping ==
    \A c \in Callers :
        (/\ request[c] = "create_resident" /\ response[c] # None
         /\ invoked[c] = 1
         /\ op_outcome[c].kind = "returned" /\ op_outcome[c].val.success
         /\ outcome[c] = op_outcome[c]) =>
            /\ response[c].success /\ response[c].status_code = 201
            /\ mapping = "active"
            /\ check_resident(TRUE) # "None"

\* ------------------------------------------------- properties of the signer
\* the header builds the history keeps
Builds == {prev, last} \ {NoBuild}

\* the index of the first newline of a string, 0 if it has none
FirstNL(str) ==
    IF \E i \in 1..Len(str) : str[i] = NL
    THEN CHOOSE i \in 1..Len(str) : str[i] = NL /\ \A j \in 1..(i - 1) : str[j] # NL
    ELSE 0

\* str.split("\n")
RECURSIVE Fields(_)
Fields(str) ==
    IF FirstNL(str) = 0 THEN <<str>>
    ELSE <<SubSeq(str, 1, FirstNL(str) - 1)>>
            \o Fields(SubSeq(str, FirstNL(str) + 1, Len(str)))

\* the string whose HMAC is the X-Ca-Signature header of build b
Signed(b) == b.headers["X-Ca-Signature"].b64.msg

\* C14: for every method, URI path and body, and in both clients, the
\* signature sent is the HMAC under the app secret of a string whose lines
\* are exactly these nine, in this order: the method, the Accept value, the
\* Content-MD5 value (empty without a body), the Content-Type value, an empty
\* Date, x-ca-key:<appKey>, x-ca-nonce:<nonce>, x-ca-timestamp:<timestamp>
\* and the URI path, nonce and timestamp being those of the X-Ca-Nonce and
\* X-Ca-Timestamp headers sent.
C14_NineFields ==
    \A b \in Builds :
        LET f == Fields(Signed(b)) IN
        /\ b.headers["X-Ca-Signature"].b64.key = app_secret
        /\ Len(f) = 9
        /\ f[1] = <<b.method>>
        /\ f[2] = <<"application/json">> /\ f[2] = b.headers["Accept"]
        /\ f[3] = (IF b.body = <<>> THEN <<>> ELSE b.headers["Content-MD5"])
        /\ f[4] = <<"application/json;charset=UTF-8">> /\ f[4] = b.headers["Content-Type"]
        /\ f[5] = <<>>
        /\ f[6] = <<"x-ca-key:">> \o app_key
        /\ f[7] = <<"x-ca-nonce:">> \o b.headers["X-Ca-Nonce"]
        /\ f[8] = <<"x-ca-timestamp:">> \o b.headers["X-Ca-Timestamp"]
        /\ f[9] = b.uri

C14_Witness ==
    /\ prev # NoBuild /\ last # NoBuild
    /\ prev.client = "app" /\ prev.method = "DELETE" /\ prev.body # <<>>
    /\ last.client = "services" /\ last.method = "GET" /\ last.body = <<>>
    /\ Fields(Signed(last))[3] = <<>>
    /\ Len(Fields(Signed(prev))) = 9

\* C15: the headers of a build have a Content-MD5 key exactly when the body
\* string is not empty; its value is then the base64 of the MD5 digest of
\* that body, and the third line of the signed string is that value, or
\* empty when the key is absent.
C15_ContentMd5 ==
    \A b \in Builds :
        /\ ("Content-MD5" \in DOMAIN b.headers) <=> (b.body # <<>>)
        /\ "Content-MD5" \in DOMAIN b.headers =>
              /\ b.headers["Content-MD5"] = <<"base64(md5(" \o Concat(b.body) \o "))">>
              /\ Fields(Signed(b))[3] = b.headers["Content-MD5"]
        /\ "Content-MD5" \notin DOMAIN b.headers => Fields(Signed(b))[3] = <<>>

C15_Witness ==
    /\ prev # NoBuild /\ last # NoBuild
    /\ prev.client = "app" /\ prev.body = <<>> /\ "Content-MD5" \notin DOMAIN prev.headers
    /\ last.client = "app" /\ last.body # <<>> /\ "Content-MD5" \in DOMAIN last.headers

\* what the signature of a build is a function of
SignatureInputs(b) ==
    <<b.method, b.uri, b.headers["Accept"], HeaderGet(b.headers, "Content-MD5", <<>>),
      b.headers["Content-Type"], b.headers["X-Ca-Key"],
      b.headers["X-Ca-Timestamp"], b.headers["X-Ca-Nonce"]>>

\* C16: two builds with the same method, URI, canonical headers, timestamp
\* and nonce carry the same signature, and two builds that differ in one of
\* them carry different signatures: a build never carries the signature
\* computed for another call.
C16_Deterministic ==
    \A a \in Builds, b \in Builds :
        (SignatureInputs(a) = SignatureInputs(b))
            <=> (a.headers["X-Ca-Signature"] = b.headers["X-Ca-Signature"])

C16_Witness ==
    /\ prev # NoBuild /\ last # NoBuild
    /\ SignatureInputs(prev) = SignatureInputs(last)
    /\ prev.headers["X-Ca-Signature"] = last.headers["X-Ca-Signature"]
    /\ prev.body # <<>>

\* C17: two builds of the signer never carry the same nonce.
C17_NonceUnique ==
    (prev # NoBuild /\ last # NoBuild) =>
        prev.headers["X-Ca-Nonce"] # last.headers["X-Ca-Nonce"]

\* ------------------------------- properties of delete, lookup and re-create
\* the client method of the request of task c was invoked, succeeded
\* downstream, and call returned its response to the method
DownstreamSucceeded(c) ==
    /\ invoked[c] = 1
    /\ op_outcome[c].kind = "returned" /\ op_outcome[c].val.success
    /\ outcome[c] = op_outcome[c]

\* C21: a delete_resident for an active mapping whose delete_person was
\* admitted by the breaker and succeeded downstream has returned success
\* with status 200 and left the mapping inactive, so that check_resident
\* no longer finds the resident.
C21_DeleteDeactivates ==
    \A c \in Callers :
        (/\ request[c] = "delete_resident" /\ response[c] # None
         /\ DownstreamSucceeded(c)) =>
            /\ response[c].success /\ response[c].status_code = 200
            /\ mapping = "inactive"
            /\ check_resident(TRUE) = "None"

\* C22: delete_resident and generate_qr_code for a resident without an
\* active mapping return 404 'Resident not found', and their step leaves the
\* store of the breaker, every task's position in call, the invocations of
\* the client method, the mapping and the QR codes unchanged.
C22_Step ==
    \A c \in Callers :
        (/\ request[c] \in {"delete_resident", "generate_qr_code"}
         /\ response[c] = None /\ pc[c] = "idle"
         /\ mapping # "active"
         /\ <<pc[c], response[c]>>' # <<pc[c], response[c]>>) =>
            /\ response'[c] = Result(FALSE, 404, "Resident not found", "nil")
            /\ UNCHANGED <<storeVars, pc, invoked, op_outcome, mapping, qr_codes>>

C22_NotFoundGives404 == [][C22_Step]_vars

C22_Witness ==
    \E c \in Callers :
        /\ request[c] = "generate_qr_code"
        /\ response[c] = Result(FALSE, 404, "Resident not found", "nil")
        /\ sync_log[c] = <<LogRow("QR_CODE", 404, <<"Resident not found">>)>>
        /\ mapping = "inactive" /\ invoked[c] = 0 /\ pc[c] = "idle"
        /\ state_key = "OPEN"

\* ------------------------------------- properties of concurrent breaker calls
\* the callable of task c is in flight, the call having been admitted as a
\* recovery probe: by the elapsed timeout in state OPEN or in state HALF_OPEN
ProbeInFlight(c) == pc[c] = "func" /\ admitted[c] \in {"OPEN", "HALF_OPEN"}

\* C23: a call that starts while HALF_OPEN is stored, its read of the state
\* getting the reply, is admitted at once and invokes the callable, however
\* many other calls are in flight; HALF_OPEN is not limited to one probe.
C23_Step ==
    \A c \in Callers :
        (/\ ~Active(c)
         /\ get_state(TRUE) = Returned("HALF_OPEN")
         /\ <<pc[c], invoked[c], outcome[c]>>' # <<pc[c], invoked[c], outcome[c]>>
         /\ outcome'[c] # Raised("RedisError")) =>
            /\ pc'[c] = "func"
            /\ invoked'[c] = 1
            /\ admitted'[c] = "HALF_OPEN"

BothIncremented(c, d) ==
    /\ c # d
    /\ pc[c] = "rf_set_last" /\ state[c] = "CLOSED"
    /\ pc[d] = "rf_set_last" /\ state[d] = "CLOSED"

C25_OpenHasTimestamp == state_key = "OPEN" => last_failure_time_key # NoTime

\* C26: a step that takes the stored state from HALF_OPEN to CLOSED or to
\* OPEN is taken by a call admitted as a recovery probe (by the elapsed
\* timeout in state OPEN, or in state HALF_OPEN), never by a call admitted
\* while the state was CLOSED; and the one to CLOSED by a call whose
\* callable returned.
C26_Step ==
    \A c \in Callers :
        (/\ state_key = "HALF_OPEN"
         /\ state_key' \in {"CLOSED", "OPEN"}
         /\ pc'[c] # pc[c]) =>
            /\ admitted[c] \in {"OPEN", "HALF_OPEN"}
            /\ state_key' = "CLOSED" => op_outcome[c].kind = "returned"

C26_OnlyProbesLeaveHalfOpen == [][C26_Step]_vars

\* task c is inside record_failure, past its read of the state
InRecordFailure(c) == pc[c] \in {"rf_set_half", "rf_incr", "rf_set_last", "rf_set_open"}

\* C27: a call whose callable returned never runs record_failure, and when
\* it has ended it has returned the callable's result, store failures during
\* record_success included.
C27_SuccessNeverFailure ==
    \A c \in Callers :
        op_outcome[c].kind = "returned" =>
            /\ ~InRecordFailure(c)
            /\ pc[c] = "done" => outcome[c] = op_outcome[c]

\* C28: no step of a call that has not invoked its callable, the steps of a
\* rejected call among them, changes the stored state, failure counter or
\* last failure time; and an outcome that arrives while OPEN is stored is
\* recorded by ending the call at once, the three left as they were.
C28_Step ==
    \A c \in Callers :
        /\ (pc'[c] # pc[c] /\ invoked'[c] = 0) => UNCHANGED storeVars
        /\ (pc[c] = "func" /\ pc'[c] # pc[c] /\ state_key = "OPEN") =>
              /\ pc'[c] = "done"
              /\ UNCHANGED storeVars

C28_RejectionAndOpenWriteNothing == [][C28_Step]_vars

C28_Witness ==
    \E c \in Callers, d \in Callers :
        /\ pc[c] = "done" /\ outcome[c] = Raised("CircuitOpen") /\ invoked[c] = 0
        /\ pc[d] = "done" /\ admitted[d] = "CLOSED" /\ state[d] = "OPEN"
        /\ OwnOutcome(d) /\ outcome[d].kind = "raised"
        /\ state_key = "OPEN"
        /\ failure_count_key = FailureThreshold
        /\ last_failure_time_key # NoTime

\* C29: once a create_resident has completed, a person that add_person
\* added downstream has an active mapping, and the create reports a stored
\* mapping only for a person whose add was invoked, succeeded and was
\* returned by the breaker.
C29_CreateKeepsMappingInStep ==
    \A c \in Callers :
        (request[c] = "create_resident" /\ response[c] # None) =>
            /\ (op_outcome[c].kind = "returned" /\ op_outcome[c].val.success) =>
                  mapping = "active"
            /\ response[c].success => DownstreamSucceeded(c)

\* C30: a create_resident for a resident whose mapping is marked inactive is
\* not answered with 409, and when its add_person was admitted and succeeded
\* downstream it ends with success and the mapping active.
C30_Step ==
    \A c \in Callers :
        (/\ request[c] = "create_resident" /\ response[c] = None
         /\ mapping = "inactive"
         /\ response'[c] # None) =>
            /\ response'[c].status_code # 409
            /\ DownstreamSucceeded(c) =>
                  /\ response'[c].success
                  /\ mapping' = "active"

C30_RecreateAfterDelete == [][C30_Step]_vars

====
